---- MODULE Spec2Model ----
(***************************************************************************)
(* A model of the PDFViewer component (src/src/components/PDFViewer.tsx):  *)
(* the React state of the component, the remote pdf_fields table, the      *)
(* in-flight loadFields calls, and one action per user or remote event.    *)
(* A click is modelled with the whole path it bubbles along: the JSX puts  *)
(* the delete button inside the inspector, the inspector inside the field  *)
(* region and the field region inside the surface, and no handler stops    *)
(* the propagation, so every handler on the path runs, each with the       *)
(* state of the render the click happened in, and the state updates are    *)
(* applied in call order (the last write of a state variable wins).        *)
(***************************************************************************)
EXTENDS Integers, Sequences, FiniteSets

VARIABLES
  template,       \* template.id, the prop of the component
  numPages,       \* useState(0)
  pageNumber,     \* useState(1)
  fields,         \* useState<PDFField[]>([])
  selectedField,  \* useState<PDFField | null>(null): <<>> is null, <<f>> is f
  isEditing,      \* useState(false)
  calls,          \* the remote calls issued and not yet answered, in issue order
  store,          \* the rows of the remote pdf_fields table, per template_id
  clickTarget,    \* the element the latest click on the surface or on Save Fields hit
  gestures,       \* number of clicks, edits and template switches made so far
  toasts          \* the notifications shown so far (toast.error, toast.success)

vars == <<template, numPages, pageNumber, fields, selectedField, isEditing,
          calls, store, clickTarget, gestures, toasts>>

----------------------------------------------------------------------------
(* Bound of the model: the number of gestures that add to the state (a     *)
(* click on the surface, a field or a delete button, an inspector edit, a  *)
(* template switch) in one run.                                            *)

MaxGestures == 3

(* Program constants. *)

InitialNumPages == 0
InitialPage == 1
DefaultWidth == 100
DefaultHeight == 20

----------------------------------------------------------------------------
(* Values.  A JavaScript number n is Num(n) and a string s is Str(s): the  *)
(* value of an input control is a string also when the control is a        *)
(* number input.                                                           *)

Num(n) == <<"number", n>>
Str(s) == <<"string", s>>

Templates == {"A", "B"}

(* The page count the rendering engine reports for a template's document. *)
PageCount(t) == IF t = "A" THEN 3 ELSE 1

(* The identifiers Math.random().toString(36).substring(2, 15) can yield. *)
RandomIds == {"r1", "r2"}

(* Pointer positions of a click, and the surface's bounding box. *)
Clicks == {[clientX |-> 50, clientY |-> 70]}
SurfaceRect == [left |-> 10, top |-> 10]

(* The attributes the inspector edits, and what its controls can yield. *)
Keys == {"name", "type", "x", "y", "width", "height", "page"}
InputValues(key) ==
  CASE key = "name" -> {Str("Total")}
    [] key = "type" -> {Str("prefilled")}
    [] key = "page" -> {Str("0")}
    [] OTHER -> {Str("7")}

(* The rows the pdf_fields table holds at the start. *)
StoredFields ==
  [t \in Templates |->
     IF t = "A"
       THEN << [id |-> "s1", template_id |-> "A", name |-> Str("Officer"),
                type |-> Str("prefilled"), x |-> Num(10), y |-> Num(20),
                width |-> Num(80), height |-> Num(20), page |-> Num(1)] >>
       ELSE << >>]

(* What the remote store answers to the delete and to the insert of a     *)
(* save: the insert is not reached when the delete fails.                 *)
RemoteAnswers ==
  {[delete |-> "error", insert |-> "none"],
   [delete |-> "ok", insert |-> "error"],
   [delete |-> "ok", insert |-> "ok"]}

Select(t) == [op |-> "select", template_id |-> t]

RemoveAt(s, k) == [j \in 1..(Len(s) - 1) |-> IF j < k THEN s[j] ELSE s[j + 1]]

----------------------------------------------------------------------------
(* The render: what the handlers of one event read. *)

Render == [fields |-> fields, selectedField |-> selectedField,
           isEditing |-> isEditing]

(* fields.map(...) at lines 132-214: one region per field of the           *)
(* collection, whatever its page.                                          *)
RenderedRegions == 1..Len(fields)

(* The inspector is a child of the region of every field whose id is the   *)
(* selected field's id, in edit mode (line 147).                           *)
InspectorRegions ==
  {i \in RenderedRegions :
     /\ selectedField # << >>
     /\ selectedField[1].id = fields[i].id
     /\ isEditing}

PreviousDisabled == pageNumber <= 1
NextDisabled == pageNumber >= numPages

----------------------------------------------------------------------------
(* The handlers.  r is the render the event happened in, st the state the  *)
(* handlers that ran before on the same event have set.                    *)

NewFieldRawPointer(e, id) ==
  [id |-> id, template_id |-> template, name |-> Str("New Field"),
   type |-> Str("editable"),
   x |-> Num(e.clientX), y |-> Num(e.clientY),
   width |-> Num(DefaultWidth), height |-> Num(DefaultHeight),
   page |-> Num(pageNumber)]

NewField(e, id) ==
  [id |-> id, template_id |-> template, name |-> Str("New Field"),
   type |-> Str("editable"),
   x |-> Num(e.clientX - SurfaceRect.left),
   y |-> Num(e.clientY - SurfaceRect.top),
   width |-> Num(DefaultWidth), height |-> Num(DefaultHeight),
   page |-> Num(pageNumber)]

handleAddFieldNoEditMode(r, st, e, id) ==
  [st EXCEPT !.fields = Append(r.fields, NewField(e, id)),
             !.selectedField = <<NewField(e, id)>>]

handleAddField(r, st, e, id) ==
  [st EXCEPT !.fields = Append(r.fields, NewField(e, id)),
             !.selectedField = <<NewField(e, id)>>,
             !.isEditing = TRUE]

handleFieldClick(st, field) ==
  [st EXCEPT !.selectedField = <<field>>, !.isEditing = TRUE]

handleFieldChangeEveryField(fs, value, fieldId, key) ==
  [j \in 1..Len(fs) |-> [fs[j] EXCEPT ![key] = value]]

handleFieldChange(fs, value, fieldId, key) ==
  [j \in 1..Len(fs) |->
     IF fs[j].id = fieldId THEN [fs[j] EXCEPT ![key] = value] ELSE fs[j]]

handleFieldDelete(r, st, fieldId) ==
  [st EXCEPT !.fields = SelectSeq(r.fields, LAMBDA f : f.id # fieldId),
             !.selectedField = << >>,
             !.isEditing = FALSE]

handlePageChange(newPage) == newPage

(* The response of a loadFields call (lines 29-38): setFields(data || [])  *)
(* or, on an error, a notification and nothing else.                       *)
loadFieldsMerging(fs, data, error) == IF error THEN fs ELSE fs \o data

loadFieldsClearingOnError(fs, data, error) == IF error THEN << >> ELSE data

loadFieldsCurrentOnly(fs, data, error) ==
  IF error \/ (\E j \in 1..Len(data) : data[j].template_id # template)
    THEN fs
    ELSE data

loadFields(fs, data, error) == IF error THEN fs ELSE data

(* The notifications of that response: toast.error(error.message) at line  *)
(* 37 when the select failed, none otherwise.                              *)
loadFieldsToasts(error) ==
  IF error THEN <<[kind |-> "error", message |-> "select failed"]>> ELSE << >>

handleSaveFieldsByFieldTemplate(answers) ==
  [issued |-> << >>,
   store |-> [t \in Templates |->
                IF \E j \in 1..Len(fields) : fields[j].template_id = t
                  THEN [j \in 1..Len(SelectSeq(fields, LAMBDA f : f.template_id = t)) |->
                          [SelectSeq(fields, LAMBDA f : f.template_id = t)[j]
                             EXCEPT !.id = "undefined"]]
                  ELSE store[t]],
   toasts |-> << >>,
   promise |-> "fulfilled"]

(* handleSaveFields (lines 91-119).  Its first statement, line 92, calls   *)
(* setIsUploading, a name that the component neither declares nor imports: *)
(* evaluating it throws a ReferenceError before the try block is entered,  *)
(* so the promise of the async function is rejected and no statement of    *)
(* lines 93-118 runs: no remote call is issued, no notification shown.     *)
handleSaveFields(answers) ==
  [issued |-> << >>, store |-> store, toasts |-> << >>,
   promise |-> "rejected: ReferenceError"]

Commit(st) ==
  /\ fields' = st.fields
  /\ selectedField' = st.selectedField
  /\ isEditing' = st.isEditing

----------------------------------------------------------------------------
(* The events. *)

Init ==
  /\ template = "A"
  /\ numPages = InitialNumPages
  /\ pageNumber = InitialPage
  /\ fields = << >>
  /\ selectedField = << >>
  /\ isEditing = FALSE
  /\ calls = <<Select(template)>>
  /\ store = StoredFields
  /\ clickTarget = "none"
  /\ gestures = 0
  /\ toasts = << >>

(* A click on the surface outside every field region: handleAddField. *)
SurfaceClickAt(e, id) ==
  /\ gestures < MaxGestures
  /\ gestures' = gestures + 1
  /\ Commit(handleAddField(Render, Render, e, id))
  /\ clickTarget' = "surface"
  /\ UNCHANGED <<template, numPages, pageNumber, calls, store, toasts>>

SurfaceClick == \E e \in Clicks, id \in RandomIds : SurfaceClickAt(e, id)

(* A click on the region of field i (its inspector, the delete button      *)
(* apart, is part of the region): handleFieldClick, then the surface's     *)
(* handleAddField.                                                         *)
FieldRegionClickAt(i, e, id) ==
  /\ gestures < MaxGestures
  /\ gestures' = gestures + 1
  /\ Commit(handleAddField(Render, handleFieldClick(Render, fields[i]), e, id))
  /\ clickTarget' = "field"
  /\ UNCHANGED <<template, numPages, pageNumber, calls, store, toasts>>

FieldRegionClick ==
  \E i \in RenderedRegions, e \in Clicks, id \in RandomIds :
    FieldRegionClickAt(i, e, id)

(* A click on the delete button of the inspector of field i:               *)
(* handleFieldDelete, then the region's handleFieldClick, then the         *)
(* surface's handleAddField.                                               *)
DeleteButtonClickAt(i, e, id) ==
  /\ gestures < MaxGestures
  /\ gestures' = gestures + 1
  /\ Commit(handleAddField(Render,
              handleFieldClick(handleFieldDelete(Render, Render, fields[i].id),
                               fields[i]),
              e, id))
  /\ clickTarget' = "deleteButton"
  /\ UNCHANGED <<template, numPages, pageNumber, calls, store, toasts>>

DeleteButtonClick ==
  \E i \in InspectorRegions, e \in Clicks, id \in RandomIds :
    DeleteButtonClickAt(i, e, id)

(* A change of the control of attribute key in the inspector of field i. *)
FieldChangeAt(i, key, value) ==
  /\ gestures < MaxGestures
  /\ gestures' = gestures + 1
  /\ UNCHANGED <<template, numPages, pageNumber, selectedField, isEditing,
                 calls, store, clickTarget, toasts>>
  /\ fields' = handleFieldChange(fields, value, fields[i].id, key)

FieldChange ==
  \E i \in InspectorRegions, key \in Keys :
    \E value \in InputValues(key) : FieldChangeAt(i, key, value)

PreviousClick ==
  /\ ~PreviousDisabled
  /\ pageNumber' = handlePageChange(pageNumber - 1)
  /\ UNCHANGED <<template, numPages, fields, selectedField, isEditing, calls,
                 store, clickTarget, gestures, toasts>>

NextClick ==
  /\ ~NextDisabled
  /\ pageNumber' = handlePageChange(pageNumber + 1)
  /\ UNCHANGED <<template, numPages, fields, selectedField, isEditing, calls,
                 store, clickTarget, gestures, toasts>>

(* The rendering engine has parsed the document of the current template. *)
onDocumentLoadSuccess ==
  /\ numPages # PageCount(template)
  /\ numPages' = PageCount(template)
  /\ UNCHANGED <<template, pageNumber, fields, selectedField, isEditing, calls,
                 store, clickTarget, gestures, toasts>>

(* The parent passes another template: the effect of lines 23-25 runs      *)
(* loadFields, whose select is in flight until its response arrives.       *)
SwitchTemplate ==
  \E t \in Templates \ {template} :
    /\ gestures < MaxGestures
    /\ gestures' = gestures + 1
    /\ template' = t
    /\ calls' = Append(calls, Select(t))
    /\ UNCHANGED <<numPages, pageNumber, fields, selectedField, isEditing,
                   store, clickTarget, toasts>>

(* The response of the k-th call in flight, a select of loadFields: the    *)
(* rows stored for the template of the call, or an error.                 *)
LoadResponseAt(k, error) ==
  /\ calls[k].op = "select"
  /\ calls' = RemoveAt(calls, k)
  /\ fields' = loadFields(fields, store[calls[k].template_id], error)
  /\ toasts' = toasts \o loadFieldsToasts(error)
  /\ UNCHANGED <<template, numPages, pageNumber, selectedField, isEditing,
                 store, clickTarget, gestures>>

LoadResponse ==
  \E k \in 1..Len(calls), error \in BOOLEAN : LoadResponseAt(k, error)

(* A click on Save Fields, the remote store being about to give answers   *)
(* to the calls of this save.                                              *)
SaveFieldsClickWhen(answers) ==
  /\ clickTarget' = "saveFields"
  /\ calls' = calls \o handleSaveFields(answers).issued
  /\ store' = handleSaveFields(answers).store
  /\ toasts' = toasts \o handleSaveFields(answers).toasts
  /\ UNCHANGED <<template, numPages, pageNumber, fields, selectedField,
                 isEditing, gestures>>

SaveFieldsClick == \E answers \in RemoteAnswers : SaveFieldsClickWhen(answers)

Next ==
  \/ SurfaceClick
  \/ FieldRegionClick
  \/ DeleteButtonClick
  \/ FieldChange
  \/ PreviousClick
  \/ NextClick
  \/ onDocumentLoadSuccess
  \/ SwitchTemplate
  \/ LoadResponse
  \/ SaveFieldsClick

Spec == Init /\ [][Next]_vars

(* The rows line 105-109 build from the collection fs for template t: the  *)
(* field with template_id set to t and id undefined.                       *)
InsertedRows(fs, t) ==
  [j \in 1..Len(fs) |-> [fs[j] EXCEPT !.template_id = t, !.id = "undefined"]]

(* Saving again: the user works on the fields, then clicks Save Fields,    *)
(* which stays enabled (lines 238-243), once or several times in a row,    *)
(* and the store accepts every call of these saves.                        *)
EditingPhase ==
  /\ clickTarget # "saveFields"
  /\ \/ SurfaceClick
     \/ FieldRegionClick
     \/ DeleteButtonClick
     \/ FieldChange
     \/ PreviousClick
     \/ NextClick
     \/ onDocumentLoadSuccess
     \/ SwitchTemplate
     \/ LoadResponse

SavingPhase == SaveFieldsClickWhen([delete |-> "ok", insert |-> "ok"])

NextSaveAgain == EditingPhase \/ SavingPhase

SpecSaveAgain == Init /\ [][NextSaveAgain]_vars

----------------------------------------------------------------------------
(* C1.  A click on the region of an existing field selects that field,     *)
(* opens the inspector and creates nothing: once every handler the click   *)
(* reaches has run, the collection is what it was before the click.        *)
C1_FieldClickCreatesNothing ==
  [][\A i \in RenderedRegions, e \in Clicks, id \in RandomIds :
       FieldRegionClickAt(i, e, id) =>
         /\ fields' = fields
         /\ selectedField' = <<fields[i]>>
         /\ isEditing' = TRUE]_vars

(* C2.  The delete action of the inspector bound to field I leaves the     *)
(* collection equal to the previous one minus exactly the one entry whose  *)
(* identifier is I, with no selected field and edit mode off.              *)
C2_DeleteRemovesExactlyOne ==
  [][\A i \in InspectorRegions, e \in Clicks, id \in RandomIds :
       DeleteButtonClickAt(i, e, id) =>
         /\ fields' = SelectSeq(fields, LAMBDA f : f.id # fields[i].id)
         /\ Len(fields') = Len(fields) - 1
         /\ selectedField' = << >>
         /\ isEditing' = FALSE]_vars

(* C3.  An edit of attribute K of the field with identifier I replaces     *)
(* attribute K of that field and nothing else: its other attributes, the   *)
(* fields with another identifier, the order and number of the fields, the *)
(* current page and the selection are unchanged.                           *)
C3_EditChangesOnlyK ==
  [][gestures' # gestures =>
     \A i \in InspectorRegions, key \in Keys :
       \A value \in InputValues(key) :
         FieldChangeAt(i, key, value) =>
           /\ Len(fields') = Len(fields)
           /\ \A j \in 1..Len(fields) :
                IF fields[j].id = fields[i].id
                  THEN /\ fields'[j][key] = value
                       /\ \A k \in (DOMAIN fields[j]) \ {key} :
                            fields'[j][k] = fields[j][k]
                  ELSE fields'[j] = fields[j]
           /\ pageNumber' = pageNumber
           /\ numPages' = numPages
           /\ selectedField' = selectedField
           /\ isEditing' = isEditing]_vars

(* C3, the case reached: two fields with different identifiers are held    *)
(* and the page of one of them has been edited.                            *)
C3_Witness ==
  \E i, j \in 1..Len(fields) :
    /\ fields[i].id # fields[j].id
    /\ fields[i].page = Str("0")
    /\ fields[j].page # Str("0")

(* C4.  A click on the surface at surface-relative (cx, cy) while page p   *)
(* is displayed appends exactly one field, with x = cx, y = cy, width 100, *)
(* height 20, kind "editable", page p and the current template; the fields *)
(* held before are kept, and the new field is selected, in edit mode.      *)
C4_SurfaceClickAppendsField ==
  [][\A e \in Clicks, id \in RandomIds :
       SurfaceClickAt(e, id) =>
         /\ Len(fields') = Len(fields) + 1
         /\ SubSeq(fields', 1, Len(fields)) = fields
         /\ LET f == fields'[Len(fields')]
                cx == e.clientX - SurfaceRect.left
                cy == e.clientY - SurfaceRect.top
            IN /\ f.x = Num(cx)
               /\ f.y = Num(cy)
               /\ f.width = Num(100)
               /\ f.height = Num(20)
               /\ f.type = Str("editable")
               /\ f.page = Num(pageNumber)
               /\ f.template_id = template
               /\ selectedField' = <<f>>
               /\ isEditing' = TRUE]_vars

(* C4, the case reached: a field created by a click at (40, 60) on page 2  *)
(* is the last of the collection, after a field held before, and selected. *)
C4_Witness ==
  /\ Len(fields) >= 2
  /\ LET f == fields[Len(fields)]
     IN /\ f.id \in RandomIds
        /\ f.x = Num(40)
        /\ f.y = Num(60)
        /\ f.page = Num(2)
        /\ selectedField = <<f>>
        /\ isEditing

(* C5.  Every save issues the delete of the current template's stored      *)
(* fields first; the insert is issued only after that delete has returned  *)
(* successfully: when the click on Save Fields has been handled, the       *)
(* delete of the current template is in flight and nothing else was        *)
(* issued.                                                                 *)
C5_SaveIssuesDeleteFirst ==
  [][SaveFieldsClick =>
       calls' = Append(calls, [op |-> "delete", template_id |-> template])]_vars

(* C6.  When the store accepts a save's delete and rejects its insert, the *)
(* store holds zero fields for the template once the save has finished,    *)
(* and the in-memory collection still holds the fields that were to be     *)
(* saved.                                                                  *)
C6_DataLossWindow ==
  [][SaveFieldsClickWhen([delete |-> "ok", insert |-> "error"]) =>
       /\ store'[template] = << >>
       /\ fields' = fields]_vars

(* C7.  The batch a save inserts is the in-memory collection: when the     *)
(* store accepts both calls, a finished save leaves for the template one   *)
(* row per in-memory field, with the client identifier removed, the        *)
(* template identifier set to the current template and every other         *)
(* attribute equal to the in-memory value.                                 *)
C7_SaveInsertsCollection ==
  [][SaveFieldsClickWhen([delete |-> "ok", insert |-> "ok"]) =>
       store'[template] =
         [j \in 1..Len(fields) |->
            [fields[j] EXCEPT !.id = "undefined", !.template_id = template]]]_vars

(* C8.  No two fields of the in-memory collection have the same            *)
(* identifier.                                                             *)
C8_UniqueIdentifiers ==
  \A i, j \in 1..Len(fields) : i # j => fields[i].id # fields[j].id

(* C9.  Previous is disabled on page 1, Next is disabled on the last page, *)
(* and a click on an enabled Previous or Next never sets the current page  *)
(* outside [1, numPages].                                                  *)
C9_NavigationStaysInRange ==
  [][/\ (pageNumber = 1 => PreviousDisabled)
     /\ (pageNumber = numPages => NextDisabled)
     /\ ((PreviousClick \/ NextClick) => pageNumber' \in 1..numPages')]_vars

(* C10.  The overlay shows and makes clickable exactly the fields whose    *)
(* page is the displayed page.                                             *)
C10_OverlayShowsCurrentPage ==
  RenderedRegions = {i \in 1..Len(fields) : fields[i].page = Num(pageNumber)}

(* C11.  The selection is either idle (no selected field, edit mode off)   *)
(* or selected-editing.  A step leaves selected-editing for idle only when *)
(* it is a click on the delete button of the selected field, so edits,     *)
(* page navigation, save, field load and template change never clear the   *)
(* selection; a click on a field moves the selection to that field, and a  *)
(* click on the surface moves it to the field the click creates.           *)
C11_SelectionStateMachine ==
  [][/\ (selectedField # << >> /\ selectedField' = << >>) =>
          \E i \in InspectorRegions, e \in Clicks, id \in RandomIds :
            DeleteButtonClickAt(i, e, id)
     /\ \A i \in RenderedRegions, e \in Clicks, id \in RandomIds :
          FieldRegionClickAt(i, e, id) =>
            selectedField' = <<fields[i]>> /\ isEditing'
     /\ \A e \in Clicks, id \in RandomIds :
          SurfaceClickAt(e, id) =>
            selectedField' = <<fields'[Len(fields')]>> /\ isEditing']_vars

(* C12.  The page of every field of the in-memory collection is a positive *)
(* integer.                                                                *)
C12_PageIsPositiveInteger ==
  \A i \in 1..Len(fields) :
    /\ fields[i].page[1] = "number"
    /\ fields[i].page[2] \in Nat \ {0}

(* C13.  When a load for template T completes successfully the in-memory   *)
(* collection becomes exactly the rows stored for T (empty when T has no   *)
(* stored row): whatever was held before, fields created or edited and not *)
(* saved included, is replaced.                                            *)
C13_LoadReplacesCollection ==
  [][Len(calls') < Len(calls) =>
       \A k \in 1..Len(calls) :
         LoadResponseAt(k, FALSE) => fields' = store[calls[k].template_id]]_vars

(* C13, the case reached: the latest click created a field on the surface  *)
(* and the collection holds the stored rows of the template and nothing    *)
(* else, no load being in flight.                                          *)
C13_Witness ==
  /\ clickTarget = "surface"
  /\ calls = << >>
  /\ template = "A"
  /\ fields = store["A"]
  /\ fields # << >>

(* C14.  A failed remote operation leaves the in-memory state unchanged:   *)
(* a failed load leaves the collection, the selection and the edit mode as *)
(* they were, and so does a save whose delete or whose insert the store    *)
(* rejects.                                                                *)
C14_FailureLeavesStateUnchanged ==
  [][/\ Len(calls') < Len(calls) =>
          \A k \in 1..Len(calls) :
            LoadResponseAt(k, TRUE) =>
              /\ fields' = fields
              /\ selectedField' = selectedField
              /\ isEditing' = isEditing
     /\ (clickTarget' = "saveFields" /\ gestures' = gestures
           /\ pageNumber' = pageNumber /\ numPages' = numPages) =>
          \A answers \in RemoteAnswers :
            (answers.delete = "error" \/ answers.insert = "error") =>
              (SaveFieldsClickWhen(answers) =>
                 /\ fields' = fields
                 /\ selectedField' = selectedField
                 /\ isEditing' = isEditing)]_vars

(* C14, the case reached: template B is shown, its load has failed, the    *)
(* collection still holds the rows of template A, a field is selected and  *)
(* Save Fields has been clicked.                                           *)
C14_Witness ==
  /\ template = "B"
  /\ calls = << >>
  /\ toasts # << >>
  /\ fields = store["A"]
  /\ fields # << >>
  /\ selectedField # << >>
  /\ clickTarget = "saveFields"

(* C15.  Every click on Save Fields shows exactly one notification for the *)
(* whole batch: the success notification when the store accepts the delete *)
(* and the insert, otherwise one error notification with the message of    *)
(* the first call that failed; and every failed load shows one error       *)
(* notification.                                                           *)
C15_OneNotificationPerOutcome ==
  [][/\ \A answers \in RemoteAnswers :
          SaveFieldsClickWhen(answers) =>
            toasts' = Append(toasts,
              IF answers.delete = "ok" /\ answers.insert = "ok"
                THEN [kind |-> "success", message |-> "Fields saved successfully"]
                ELSE IF answers.delete = "error"
                       THEN [kind |-> "error", message |-> "delete failed"]
                       ELSE [kind |-> "error", message |-> "insert failed"])
     /\ \A k \in 1..Len(calls) :
          LoadResponseAt(k, TRUE) =>
            toasts' = Append(toasts, [kind |-> "error", message |-> "select failed"])]_vars

(* C16.  A load response is applied to the collection without checking     *)
(* that it belongs to the current template: the successful response of a   *)
(* load issued for another template than the one shown sets the collection *)
(* to the rows stored for that other template.                             *)
C16_StaleLoadResponseApplied ==
  [][Len(calls') < Len(calls) =>
       \A k \in 1..Len(calls) :
         (calls[k].template_id # template /\ LoadResponseAt(k, FALSE)) =>
           /\ fields' = store[calls[k].template_id]
           /\ template' = template]_vars

(* C16, the case reached: the template was switched from A to B while A's  *)
(* load was in flight and A's response arrived last; no load is in flight, *)
(* the template shown is B and the collection holds the rows stored for A, *)
(* which are not the rows stored for B.                                    *)
C16_Witness ==
  /\ calls = << >>
  /\ template = "B"
  /\ gestures = 1
  /\ toasts = << >>
  /\ fields = store["A"]
  /\ fields # store["B"]

(* C17.  Save can be clicked again while an earlier save is in flight, and *)
(* the replace-all outcome still holds: once Save Fields has been clicked, *)
(* one or several times, the store has accepted every call of these saves  *)
(* and the collection has not changed since the first click, the store     *)
(* holds for the current template exactly one row per in-memory field.     *)
C17_OverlappingSavesReplaceAll ==
  clickTarget = "saveFields" =>
    [j \in 1..Len(store[template]) |->
       [store[template][j] EXCEPT !.id = "undefined"]]
      = InsertedRows(fields, template)

(* C18.  The edit mode and the selection agree: edit mode is on if and     *)
(* only if a field is selected.                                            *)
C18_EditModeIffSelected == isEditing <=> (selectedField # << >>)

(* C18, the case reached: the handlers of a click on a delete button have  *)
(* run (edit mode set off, then on again), a load has completed since, and *)
(* a field is selected in edit mode.                                       *)
C18_Witness ==
  /\ clickTarget = "deleteButton"
  /\ calls = << >>
  /\ isEditing
  /\ selectedField # << >>

(* C19.  The selection never dangles: when a field is selected, a field of *)
(* the in-memory collection has its identifier.                            *)
C19_SelectionNeverDangles ==
  selectedField # << >> =>
    \E i \in 1..Len(fields) : fields[i].id = selectedField[1].id

====
